---- MODULE Spec2Model ----
(***************************************************************************)
(* Batch-job helper clients of LLM_batch_process:                           *)
(*   MistralAIBatchProcessor (src/mistral_batch.py)  -- provider "mistral"  *)
(*   OpenAIBatchProcessor    (src/openai_batch.py)   -- provider "openai"   *)
(* The vendor SDK, the file system and time.sleep are the environment: the  *)
(* outcome of each of their calls is an input of the action that makes it.  *)
(***************************************************************************)
EXTENDS Integers, Sequences, FiniteSets, TLC

VARIABLES
  provider,    \* which of the two classes the client object is
  model_name,  \* self.model_name
  \* ---- check_batch_job_status ----
  pc,          \* "idle" | "polling" | "returned"
  interval,    \* check_interval argument of the running call
  hist,        \* outcome of every client.batch.jobs.get of the running call
  sleepLog,    \* argument of every time.sleep of the running call
  ret,         \* value returned by the call
  pollRaised,  \* an exception left check_batch_job_status
  \* ---- create_task / write_task_file ----
  taskFile,    \* content of {task_dir}/{prefix}_tasks.jsonl, or Absent
  createCall,  \* record of the last create_task call
  taskCall,    \* record of the last write_task_file call
  \* ---- write_batch_file / upload_batch_file / create_batch_job ----
  batchDir,    \* batch_dir exists
  batchFile,   \* batch index -> content of {prefix}_batch_job{N}.jsonl, or Absent
  batchCall,   \* record of the last write_batch_file call
  vendorFiles, \* file ids the vendor holds
  fileHandle,  \* value returned by the last upload_batch_file (None or a handle)
  uploadCall,  \* record of the last upload_batch_file call
  jobHandle,   \* value returned by the last create_batch_job (None or a handle)
  jobCall,     \* record of the last create_batch_job call
  \* ---- save_batch_output ----
  outFile,     \* output_file_id -> content of the local output file, or Absent
  outCall      \* record of the last save_batch_output call

pollVars  == <<pc, interval, hist, sleepLog, ret, pollRaised>>
taskVars  == <<taskFile, createCall, taskCall>>
batchVars == <<batchDir, batchFile, batchCall, vendorFiles, fileHandle, uploadCall,
               jobHandle, jobCall>>
outVars   == <<outFile, outCall>>
vars == <<provider, model_name, pollVars, taskVars, batchVars, outVars>>

\* ------------------------------------------------------------------------
\* Bounds
MaxPolls == 3   \* fetches of one check_batch_job_status call that are explored
MaxTasks == 2   \* length of the id / message / request lists that are explored

Providers  == {"mistral", "openai"}
ModelNames == {"model-a", "model-b"}
None   == "None"                              \* a None status / return value
Absent == [exists |-> FALSE, text |-> <<>>]   \* no such file
File(text) == [exists |-> TRUE, text |-> text]

\* ------------------------------------------------------------------------
\* check_batch_job_status

\* attributes OpenAIBatchProcessor.__init__ sets on self
OpenAIAttrs ==
  {"api_key", "client", "model_name", "temperature", "max_completion_tokens",
   "filename_prefix", "task_dir", "batch_dir", "output_dir",
   "success_statuses", "failed_statuses", "statuses"}

success_status(p) ==
  IF p = "mistral" THEN {"SUCCESS"} ELSE {"completed"}
failed_statuses(p) ==
  IF p = "mistral" THEN {"FAILED", "TIMEOUT_EXCEEDED", "CANCELLED"}
                   ELSE {"failed", "expired", "cancelled"}
processing_statuses(p) ==
  IF p = "mistral" THEN {"QUEUED", "RUNNING", "CANCELLATION_REQUESTED"}
                   ELSE {"validating", "in_progress", "finalizing", "cancelling"}
\* what the vendor may answer to a status fetch
Statuses(p) == success_status(p) \cup failed_statuses(p) \cup processing_statuses(p)
Terminal(p) == success_status(p) \cup failed_statuses(p)

FetchError == "EXC"   \* client.batch.jobs.get raised
FetchOutcomes(p) == Statuses(p) \cup {FetchError}
Intervals == {1, 3}

\* the name the loop body looks the success set up under
SuccessAttr(p) == "success_status"
\* the lookup raises AttributeError when the object has no such attribute;
\* in the mistral class the sets are locals of the method
LookupRaises(p) == p = "openai" /\ SuccessAttr(p) \notin OpenAIAttrs

\* HandleFetch without the `except Exception` around the fetch
HandleFetchPropagates(p, o) ==
  IF o = FetchError THEN "raise"
  ELSE IF LookupRaises(p) THEN "sleep"
  ELSE IF o \in success_status(p) THEN "return"
  ELSE IF o \in failed_statuses(p) THEN "return"
  ELSE "sleep"

\* one pass through the body of `while True`: what happens after the fetch
\* had outcome o ("return" the status, or "sleep" and loop; "raise" never)
HandleFetch(p, o) ==
  IF o = FetchError THEN "sleep"            \* except Exception
  ELSE IF LookupRaises(p) THEN "sleep"      \* AttributeError, except Exception
  ELSE IF o \in success_status(p) THEN "return"
  ELSE IF o \in failed_statuses(p) THEN "return"
  ELSE "sleep"

\* time.sleep(check_interval * 60)
SleepSeconds(iv) == iv * 60

StartPoll ==
  /\ pc \in {"idle", "returned"}
  /\ \E iv \in Intervals : interval' = iv
  /\ pc' = "polling"
  /\ hist' = <<>>
  /\ sleepLog' = <<>>
  /\ ret' = None
  /\ pollRaised' = FALSE
  /\ UNCHANGED <<provider, model_name, taskVars, batchVars, outVars>>

PollStep ==
  /\ pc = "polling"
  /\ Len(hist) < MaxPolls
  /\ \E o \in FetchOutcomes(provider) :
       LET h == HandleFetch(provider, o) IN
       /\ hist' = Append(hist, o)
       /\ pc' = IF h = "sleep" THEN "polling" ELSE "returned"
       /\ ret' = IF h = "return" THEN o ELSE ret
       /\ pollRaised' = (h = "raise")
       /\ sleepLog' = IF h = "sleep" THEN Append(sleepLog, SleepSeconds(interval))
                      ELSE sleepLog
  /\ UNCHANGED <<provider, model_name, interval, taskVars, batchVars, outVars>>

NextPoll == StartPoll \/ PollStep

\* ------------------------------------------------------------------------
\* str() and json.dumps().  Text is a sequence of characters/tokens.

Min(a, b) == IF a < b THEN a ELSE b

Digit(d) ==
  CASE d = 0 -> "0" [] d = 1 -> "1" [] d = 2 -> "2" [] d = 3 -> "3" [] d = 4 -> "4"
    [] d = 5 -> "5" [] d = 6 -> "6" [] d = 7 -> "7" [] d = 8 -> "8" [] d = 9 -> "9"

RECURSIVE IntStr(_)
\* str(n) of a non-negative int: its decimal digits
IntStr(n) == IF n < 10 THEN <<Digit(n)>> ELSE IntStr(n \div 10) \o <<Digit(n % 10)>>

IntId(n) == [kind |-> "int", n |-> n, s |-> <<>>]
StrId(s) == [kind |-> "str", n |-> 0, s |-> s]
\* identifiers a caller passes: ints and strings (str(1) and str("1") coincide)
Ids == {IntId(1), IntId(12), StrId(<<"1">>)}

\* str(id)
ToStr(id) == IF id.kind = "int" THEN IntStr(id.n) ELSE id.s

\* message dicts are opaque payloads
Messages == {"m1", "m2"}

\* the remaining constructor settings are fixed: max_tokens / max_completion_tokens
\* (<<>> is None, the default of the openai class) and temperature (defaults 0.1, 1)
TokenLimit(p) == IF p = "mistral" THEN <<256>> ELSE <<>>
Temperature(p) == IF p = "mistral" THEN "0.1" ELSE "1"

SeqsUpTo(S, n) == UNION {[1..k -> S] : k \in 0..n}

\* MistralAIBatchProcessor.create_task(id, messages)
create_task_mistral(id, messages, model) ==
  [custom_id |-> ToStr(id),
   body |-> [model |-> model, max_tokens |-> TokenLimit("mistral"),
             messages |-> messages]]

OpenAIRequest(task_id, message, model) ==
  [custom_id |-> ToStr(task_id),
   method |-> "POST",
   url |-> "/v1/chat/completions",
   body |-> [model |-> model, temperature |-> Temperature("openai"),
             max_completion_tokens |-> TokenLimit("openai"),
             response_format |-> "json_object",
             messages |-> <<message>>]]

\* create_task building the list in reverse order
create_task_openai_rev(ids, messages, model) ==
  LET n == Min(Len(ids), Len(messages)) IN
  [i \in 1..n |-> OpenAIRequest(ids[n + 1 - i], messages[n + 1 - i], model)]

\* OpenAIBatchProcessor.create_task(ids, messages): one dict per pair of zip()
create_task_openai(ids, messages, model) ==
  [i \in 1..Min(Len(ids), Len(messages)) |-> OpenAIRequest(ids[i], messages[i], model)]

JStr(chars) == <<"\"">> \o chars \o <<"\"">>
JKey(name) == JStr(<<name>>) \o <<":">>
JInt(v) == IF v = <<>> THEN <<"null">> ELSE IntStr(v[1])

RECURSIVE JList(_)
\* json.dumps of a list of message payloads
JList(ms) ==
  IF ms = <<>> THEN <<>>
  ELSE IF Len(ms) = 1 THEN <<ms[1]>>
  ELSE <<ms[1], ",">> \o JList(Tail(ms))

\* json.dumps(obj) of a task dict, keys in insertion order
Dumps(p, obj) ==
  IF p = "mistral" THEN
    <<"{">> \o JKey("custom_id") \o JStr(obj.custom_id) \o <<",">>
    \o JKey("body") \o <<"{">>
    \o JKey("model") \o JStr(<<obj.body.model>>) \o <<",">>
    \o JKey("max_tokens") \o JInt(obj.body.max_tokens) \o <<",">>
    \o JKey("messages") \o <<"[">> \o JList(obj.body.messages) \o <<"]">>
    \o <<"}", "}">>
  ELSE
    <<"{">> \o JKey("custom_id") \o JStr(obj.custom_id) \o <<",">>
    \o JKey("method") \o JStr(<<obj.method>>) \o <<",">>
    \o JKey("url") \o JStr(<<obj.url>>) \o <<",">>
    \o JKey("body") \o <<"{">>
    \o JKey("model") \o JStr(<<obj.body.model>>) \o <<",">>
    \o JKey("temperature") \o <<obj.body.temperature>> \o <<",">>
    \o JKey("max_completion_tokens") \o JInt(obj.body.max_completion_tokens) \o <<",">>
    \o JKey("response_format") \o <<"{">> \o JKey("type")
    \o JStr(<<obj.body.response_format>>) \o <<"}", ",">>
    \o JKey("messages") \o <<"[">> \o JList(obj.body.messages) \o <<"]">>
    \o <<"}", "}">>

NL == "\n"

RECURSIVE WriteLines(_, _, _)
\* for obj in objs[1..k]: f.write(json.dumps(obj) + '\n'), on an opened file
WriteLines(p, objs, k) ==
  IF k = 0 THEN <<>>
  ELSE WriteLines(p, objs, k - 1) \o Dumps(p, objs[k]) \o <<NL>>

RECURSIVE SplitLines(_)
\* reading a file back: its lines, without the terminating newline
SplitLines(text) ==
  IF text = <<>> THEN <<>>
  ELSE LET idx == CHOOSE i \in 1..Len(text) :
                    /\ text[i] = NL
                    /\ \A j \in 1..(i - 1) : text[j] # NL
       IN <<SubSeq(text, 1, idx - 1)>> \o SplitLines(SubSeq(text, idx + 1, Len(text)))

\* ------------------------------------------------------------------------
\* create_task and write_task_file

\* outcomes of the local I/O of one write call
IoOutcomes == {"ok", "mkdir_fail", "open_fail", "write_fail"}

\* text of a file right after open('a'): what it held is kept
OpenAppend(prev) == IF prev.exists THEN prev.text ELSE <<>>

\* text of a file right after open('w'): created or truncated
OpenWrite(prev) == <<>>

\* the file after `with file_path.open('w') as f: for obj in objs: f.write(...)`
\* when mkdir / open / the write of line k+1 fails, or nothing does
FileAfterWrite(p, prev, objs, io, k) ==
  CASE io = "mkdir_fail" -> prev
    [] io = "open_fail"  -> prev
    [] io = "write_fail" -> File(OpenWrite(prev) \o WriteLines(p, objs, k))
    [] io = "ok"         -> File(OpenWrite(prev) \o WriteLines(p, objs, Len(objs)))

\* provider A: create_task(id, messages) builds one dict
CreateTaskMistral ==
  /\ provider = "mistral"
  /\ \E id \in Ids, ms \in SeqsUpTo(Messages, MaxTasks) :
       createCall' = [op |-> "create_task", ids |-> <<id>>, messages |-> ms,
                      result |-> <<create_task_mistral(id, ms, model_name)>>]
  /\ UNCHANGED <<provider, model_name, taskFile, taskCall, pollVars, batchVars, outVars>>

\* provider B: create_task(ids, messages) builds the whole list
CreateTaskOpenAI ==
  /\ provider = "openai"
  /\ \E ids \in SeqsUpTo(Ids, MaxTasks), ms \in SeqsUpTo(Messages, MaxTasks) :
       createCall' = [op |-> "create_task", ids |-> ids, messages |-> ms,
                      result |-> create_task_openai(ids, ms, model_name)]
  /\ UNCHANGED <<provider, model_name, taskFile, taskCall, pollVars, batchVars, outVars>>

NextCreate == CreateTaskMistral \/ CreateTaskOpenAI

\* identifiers of the requests that are written to files
FileIds == {IntId(12), StrId(<<"1">>)}

\* request lists a caller passes to the write calls: what create_task built
\* for every id list, one message each
RequestLists(p, model) ==
  {IF p = "mistral"
     THEN [i \in 1..Len(ids) |-> create_task_mistral(ids[i], <<"m1">>, model)]
     ELSE create_task_openai(ids, [i \in 1..Len(ids) |-> "m1"], model)
   : ids \in SeqsUpTo(FileIds, MaxTasks)}

\* write_task_file(tasks): no try/except, every I/O failure reaches the caller
WriteTaskFile ==
  /\ \E tasks \in RequestLists(provider, model_name), io \in IoOutcomes, k \in 0..MaxTasks :
       /\ io = "write_fail" => k < Len(tasks)
       /\ io # "write_fail" => k = 0
       /\ taskFile' = FileAfterWrite(provider, taskFile, tasks, io, k)
       /\ taskCall' = [op |-> "write_task_file", tasks |-> tasks, before |-> taskFile,
                       io |-> io, raised |-> (io # "ok")]
  /\ UNCHANGED <<provider, model_name, createCall, pollVars, batchVars, outVars>>

NextTask == WriteTaskFile

\* ------------------------------------------------------------------------
\* write_batch_file, upload_batch_file, create_batch_job

BatchIds == {0, 1}                       \* batch indices a caller uses
NoHandle == [isNone |-> TRUE, id |-> 0]  \* None returned in place of a handle
Handle(id) == [isNone |-> FALSE, id |-> id]
NoJob == [isNone |-> TRUE, input |-> 0]   \* None returned in place of a job
Job(fid) == [isNone |-> FALSE, input |-> fid]  \* the vendor's job for input file fid

\* the same, for the empty list and one single-request list only
SmallRequestLists(p, model) ==
  {IF p = "mistral"
     THEN [i \in 1..Len(ids) |-> create_task_mistral(ids[i], <<"m1">>, model)]
     ELSE create_task_openai(ids, [i \in 1..Len(ids) |-> "m1"], model)
   : ids \in {<<>>, <<IntId(12)>>}}

\* which I/O failure leaves write_batch_file as an exception: mkdir is called
\* before the try block, open and write are inside it
WriteBatchRaises(io) == io = "mkdir_fail"

\* write_batch_file returning early on an empty request list
BatchFileAfterSkipEmpty(p, prev, requests, io, k) ==
  IF requests = <<>> THEN prev ELSE FileAfterWrite(p, prev, requests, io, k)

\* the batch file after write_batch_file(requests, i)
BatchFileAfter(p, prev, requests, io, k) == FileAfterWrite(p, prev, requests, io, k)

WriteBatchFileOn(lists) ==
  /\ \E requests \in lists, i \in BatchIds, io \in IoOutcomes, k \in 0..MaxTasks :
       /\ io = "write_fail" => k < Len(requests)
       /\ io # "write_fail" => k = 0
       /\ batchDir' = (batchDir \/ io # "mkdir_fail")
       /\ batchFile' = [batchFile EXCEPT
                          ![i] = BatchFileAfter(provider, batchFile[i], requests, io, k)]
       /\ batchCall' = [op |-> "write_batch_file", requests |-> requests, i |-> i,
                        io |-> io, raised |-> WriteBatchRaises(io)]
  /\ UNCHANGED <<provider, model_name, vendorFiles, fileHandle, uploadCall,
                 jobHandle, jobCall, pollVars, taskVars, outVars>>

WriteBatchFile == WriteBatchFileOn(RequestLists(provider, model_name))
WriteBatchFileSmall == WriteBatchFileOn(SmallRequestLists(provider, model_name))

NextBatchWrite == WriteBatchFile

UploadOutcomes == {"ok", "open_fail", "vendor_fail"}

\* upload_batch_file without the exists() check and the FileNotFoundError handler
UploadResultUnchecked(existed, up) ==
  [called |-> (up # "open_fail"),
   handleOk |-> (existed /\ up = "ok"),
   raised |-> ~existed]

\* upload_batch_file on a batch file that existed or not, when open / the vendor
\* call has outcome up: was the vendor called, is a handle returned, does it raise
UploadResult(existed, up) ==
  IF ~existed THEN [called |-> FALSE, handleOk |-> FALSE, raised |-> FALSE]
  ELSE [called |-> (up # "open_fail"), handleOk |-> (up = "ok"), raised |-> FALSE]

UploadBatchFile ==
  /\ \E i \in BatchIds, up \in UploadOutcomes :
       LET existed == batchFile[i].exists
           r == UploadResult(existed, up) IN
       /\ uploadCall' = [op |-> "upload_batch_file", i |-> i, existed |-> existed,
                         up |-> up, called |-> r.called, raised |-> r.raised]
       /\ fileHandle' = IF r.handleOk THEN Handle(i) ELSE NoHandle
       /\ vendorFiles' = IF r.handleOk THEN vendorFiles \cup {i} ELSE vendorFiles
  /\ UNCHANGED <<provider, model_name, batchDir, batchFile, batchCall,
                 jobHandle, jobCall, pollVars, taskVars, outVars>>

\* create_batch_job sending the request whatever batch_file is
CreateJobResultNoIdCheck(h, ok) ==
  [called |-> TRUE, handleOk |-> ok, raised |-> FALSE]

\* create_batch_job(batch_file): batch_file.id is read inside the try block, so
\* None gives an AttributeError that `except Exception` catches before any request
CreateJobResult(h, ok) ==
  IF h.isNone THEN [called |-> FALSE, handleOk |-> FALSE, raised |-> FALSE]
  ELSE [called |-> TRUE, handleOk |-> ok, raised |-> FALSE]

\* the caller hands create_batch_job what upload_batch_file returned
CreateBatchJob ==
  /\ uploadCall.op = "upload_batch_file"
  /\ \E ok \in BOOLEAN :
       LET r == CreateJobResult(fileHandle, ok) IN
       /\ jobCall' = [op |-> "create_batch_job", arg |-> fileHandle, ok |-> ok,
                      called |-> r.called, raised |-> r.raised]
       /\ jobHandle' = IF r.handleOk THEN Job(fileHandle.id) ELSE NoJob
  /\ UNCHANGED <<provider, model_name, batchDir, batchFile, batchCall, vendorFiles,
                 fileHandle, uploadCall, pollVars, taskVars, outVars>>

NextUpload == WriteBatchFileSmall \/ UploadBatchFile \/ CreateBatchJob

\* ------------------------------------------------------------------------
\* save_batch_output

OutIds == {"f1", "f2"}        \* output file ids a caller asks for
Chunks == {"0x61", "0x62"}    \* byte chunks the vendor serves
MaxChunks == 2                \* chunks of one download that are explored

\* chunk.decode("utf-8")
Decode(c) == CASE c = "0x61" -> "a" [] c = "0x62" -> "b"

RECURSIVE WriteChunks(_, _, _)
\* what the first k writes put into the opened output file: provider A decodes
\* and writes chunk by chunk, provider B writes the whole content at once
WriteChunks(p, chunks, k) ==
  IF k = 0 THEN <<>>
  ELSE WriteChunks(p, chunks, k - 1)
       \o <<IF p = "mistral" THEN Decode(chunks[k]) ELSE chunks[k]>>

SaveOutcomes(p) ==
  {"ok", "mkdir_fail", "download_fail", "open_fail", "write_fail"}
  \cup (IF p = "mistral" THEN {"stream_fail"} ELSE {})

\* save_batch_output opening the output file before the download call
OutFileAfterOpenFirst(p, prev, chunks, o, k) ==
  CASE o \in {"mkdir_fail", "open_fail"} -> prev
    [] o = "download_fail" -> File(<<>>)
    [] o \in {"write_fail", "stream_fail"} -> File(WriteChunks(p, chunks, k))
    [] o = "ok" -> File(WriteChunks(p, chunks, Len(chunks)))

\* the local output file after save_batch_output: the file is opened ('w'/'wb')
\* only after the download call returned
OutFileAfter(p, prev, chunks, o, k) ==
  CASE o \in {"mkdir_fail", "download_fail", "open_fail"} -> prev
    [] o \in {"write_fail", "stream_fail"} -> File(WriteChunks(p, chunks, k))
    [] o = "ok" -> File(WriteChunks(p, chunks, Len(chunks)))

\* number of vendor download calls one save_batch_output makes
DownloadCalls(o) == IF o = "mkdir_fail" THEN 0 ELSE 1

\* path.mkdir is called before the try block; everything else is inside it
SaveRaises(o) == o = "mkdir_fail"

SaveBatchOutput ==
  /\ \E id \in OutIds, chunks \in SeqsUpTo(Chunks, MaxChunks),
        o \in SaveOutcomes(provider), k \in 0..MaxChunks :
       /\ o \in {"write_fail", "stream_fail"} =>
            IF provider = "mistral" THEN k < Len(chunks) ELSE k = 0
       /\ o \notin {"write_fail", "stream_fail"} => k = 0
       /\ outFile' = [outFile EXCEPT ![id] = OutFileAfter(provider, outFile[id], chunks, o, k)]
       /\ outCall' = [op |-> "save_batch_output", id |-> id, o |-> o,
                      before |-> outFile[id], downloads |-> DownloadCalls(o),
                      raised |-> SaveRaises(o)]
  /\ UNCHANGED <<provider, model_name, pollVars, taskVars, batchVars>>

NextOutput == SaveBatchOutput

\* ------------------------------------------------------------------------
\* a freshly constructed client, nothing written, nothing uploaded

Init ==
  /\ provider \in Providers
  /\ model_name \in ModelNames
  /\ pc = "idle"
  /\ interval = 3
  /\ hist = <<>>
  /\ sleepLog = <<>>
  /\ ret = None
  /\ pollRaised = FALSE
  /\ taskFile = Absent
  /\ createCall = [op |-> "none"]
  /\ taskCall = [op |-> "none"]
  /\ batchDir = FALSE
  /\ batchFile = [i \in BatchIds |-> Absent]
  /\ batchCall = [op |-> "none"]
  /\ vendorFiles = {}
  /\ fileHandle = NoHandle
  /\ uploadCall = [op |-> "none"]
  /\ jobHandle = NoJob
  /\ jobCall = [op |-> "none"]
  /\ outFile = [id \in OutIds |-> Absent]
  /\ outCall = [op |-> "none"]

Next == NextPoll \/ NextCreate \/ NextTask \/ NextBatchWrite \/ NextUpload \/ NextOutput

SpecPoll       == Init /\ [][NextPoll]_vars
SpecCreate     == Init /\ [][NextCreate]_vars
SpecTask       == Init /\ [][NextTask]_vars
SpecBatchWrite == Init /\ [][NextBatchWrite]_vars
SpecUpload     == Init /\ [][NextUpload]_vars
SpecOutput     == Init /\ [][NextOutput]_vars
Spec           == Init /\ [][Next]_vars

\* ------------------------------------------------------------------------
\* Properties

\* the lines json.dumps + '\n' gives for a list of dicts
Serialized(p, objs) == [i \in 1..Len(objs) |-> Dumps(p, objs[i])]

\* C1 (as stated): when the first status fetched by check_batch_job_status is
\* terminal, the call has returned after that one fetch, without any sleep, and
\* its return value is that status -- in both provider variants.
C1_FirstTerminalReturnsAtOnce ==
  (Len(hist) >= 1 /\ hist[1] \in Terminal(provider)) =>
    /\ pc = "returned"
    /\ Len(hist) = 1
    /\ sleepLog = <<>>
    /\ ret = hist[1]
    /\ ~pollRaised

\* C2 (as stated): after n non-terminal statuses followed by one terminal status
\* the call has returned the terminal status after n+1 fetches and n sleeps; a
\* returned value is always a terminal status.
C2_ScriptedPollingReturns ==
  /\ (/\ Len(hist) >= 1
      /\ hist[Len(hist)] \in Terminal(provider)
      /\ \A j \in 1..(Len(hist) - 1) : hist[j] \in processing_statuses(provider)) =>
       /\ pc = "returned"
       /\ Len(sleepLog) = Len(hist) - 1
       /\ ret = hist[Len(hist)]
  /\ pc = "returned" => ret \in Terminal(provider)

\* C3: a status fetch that raises is handled like a non-terminal status: the call
\* sleeps check_interval * 60 seconds once and stays in the loop, nothing is
\* raised to the caller or returned; a call whose fetches all raised has not
\* returned, however many there were.
C3_FetchErrorSleepsAndRetries ==
  /\ [][(pc = "polling" /\ hist' = Append(hist, FetchError)) =>
          /\ pc' = "polling"
          /\ sleepLog' = Append(sleepLog, SleepSeconds(interval))
          /\ ~pollRaised'
          /\ ret' = ret]_vars
  /\ []((\A j \in 1..Len(hist) : hist[j] = FetchError) =>
          (pc # "returned" /\ ~pollRaised /\ Len(sleepLog) = Len(hist)))

C3_Witness ==
  /\ pc = "polling"
  /\ Len(hist) = MaxPolls
  /\ \A j \in 1..Len(hist) : hist[j] = FetchError
  /\ Len(sleepLog) = MaxPolls

\* C4: after a write_task_file call that returned, the task file holds exactly
\* the serialization of that call's tasks, one line per task in the original
\* order, and nothing of what the file held before.
C4_TaskFileIsLastWrite ==
  (taskCall.op = "write_task_file" /\ ~taskCall.raised) =>
    /\ taskFile.exists
    /\ SplitLines(taskFile.text) = Serialized(provider, taskCall.tasks)

C4_Witness ==
  /\ taskCall.op = "write_task_file"
  /\ ~taskCall.raised
  /\ taskCall.before.exists
  /\ Len(SplitLines(taskCall.before.text)) = 2
  /\ Len(taskCall.tasks) = 2
  /\ taskCall.tasks[1] # taskCall.tasks[2]
  /\ taskCall.before # taskFile

\* C5: upload_batch_file never raises; for a batch index whose file does not
\* exist it returns None without calling the vendor; it returns a file handle
\* exactly when the vendor upload call was made and succeeded.
C5_UploadHandleOnlyOnSuccess ==
  uploadCall.op = "upload_batch_file" =>
    /\ ~uploadCall.raised
    /\ ~uploadCall.existed => (fileHandle.isNone /\ ~uploadCall.called)
    /\ ~fileHandle.isNone <=> (uploadCall.called /\ uploadCall.up = "ok")
    /\ ~fileHandle.isNone => fileHandle.id \in vendorFiles

C5_Witness ==
  /\ uploadCall.op = "upload_batch_file"
  /\ ~uploadCall.existed
  /\ uploadCall.up = "ok"
  /\ \E j \in BatchIds : j # uploadCall.i /\ batchFile[j].exists
  /\ fileHandle.isNone

\* C6 (as stated): no local I/O failure of write_batch_file (mkdir, open, write)
\* is raised to the caller.
C6_WriteBatchNeverRaises ==
  batchCall.op = "write_batch_file" => ~batchCall.raised

\* C7: when the vendor download call of save_batch_output fails, the call does
\* not raise, has made exactly one download call, and the local output file of
\* that id is as it was before the call (not created, not modified).
C7_DownloadFailureLeavesFile ==
  (outCall.op = "save_batch_output" /\ outCall.o = "download_fail") =>
    /\ ~outCall.raised
    /\ outCall.downloads = 1
    /\ outFile[outCall.id] = outCall.before

C7_Witness ==
  /\ outCall.op = "save_batch_output"
  /\ outCall.o = "download_fail"
  /\ ~outFile[outCall.id].exists

\* C8: a write_batch_file call whose I/O succeeds returns normally and leaves the
\* batch file of that index holding one line per request in the given order;
\* for an empty request list the file exists and is empty.
C8_BatchFileHoldsRequests ==
  (batchCall.op = "write_batch_file" /\ batchCall.io = "ok") =>
    /\ ~batchCall.raised
    /\ batchFile[batchCall.i].exists
    /\ SplitLines(batchFile[batchCall.i].text) = Serialized(provider, batchCall.requests)
    /\ batchCall.requests = <<>> => batchFile[batchCall.i].text = <<>>

C8_Witness ==
  /\ batchCall.op = "write_batch_file"
  /\ batchCall.io = "ok"
  /\ batchCall.requests = <<>>
  /\ batchFile[batchCall.i] = File(<<>>)

\* lines of the task file written from the result of the last create_task
LinesOfResult ==
  SplitLines(FileAfterWrite(provider, Absent, createCall.result, "ok", 0).text)

\* C9 (as stated): create_task returns exactly one request per id, the i-th with
\* custom_id = str(ids[i]) and body.model = the configured model, and writing
\* the result gives one line per id.
C9_OneRequestPerId ==
  createCall.op = "create_task" =>
    /\ Len(createCall.result) = Len(createCall.ids)
    /\ \A i \in 1..Len(createCall.ids) :
         /\ createCall.result[i].custom_id = ToStr(createCall.ids[i])
         /\ createCall.result[i].body.model = model_name
    /\ Len(LinesOfResult) = Len(createCall.ids)

\* C9 (amended): create_task returns one request per (id, message) pair of
\* zip(ids, messages): min(len(ids), len(messages)) requests for provider B, one
\* for provider A, the i-th with custom_id = str(ids[i]) and body.model = the
\* configured model; writing the result gives one line per request, which is
\* one per id when there are at least as many messages as ids.
C9_OneRequestPerPair ==
  createCall.op = "create_task" =>
    /\ Len(createCall.result) =
         IF provider = "openai"
           THEN Min(Len(createCall.ids), Len(createCall.messages))
           ELSE 1
    /\ \A i \in 1..Len(createCall.result) :
         /\ createCall.result[i].custom_id = ToStr(createCall.ids[i])
         /\ createCall.result[i].body.model = model_name
    /\ Len(LinesOfResult) = Len(createCall.result)
    /\ (provider = "openai" /\ Len(createCall.messages) >= Len(createCall.ids)) =>
         Len(LinesOfResult) = Len(createCall.ids)

C9_Witness ==
  /\ createCall.op = "create_task"
  /\ provider = "openai"
  /\ Len(createCall.ids) = 2
  /\ Len(createCall.messages) = 2
  /\ ToStr(createCall.ids[1]) # ToStr(createCall.ids[2])
  /\ Len(createCall.result) = 2

\* C10: create_batch_job never raises; it returns a job handle exactly when the
\* vendor batch-creation call was made and succeeded; given the None of a
\* failed upload it returns None without any request to the vendor, so a job
\* handle always belongs to a file that was uploaded.
C10_JobOnlyForUploadedFile ==
  jobCall.op = "create_batch_job" =>
    /\ ~jobCall.raised
    /\ ~jobHandle.isNone <=> (jobCall.called /\ jobCall.ok)
    /\ jobCall.arg.isNone => (jobHandle.isNone /\ ~jobCall.called)
    /\ ~jobHandle.isNone => jobHandle.input \in vendorFiles

C10_Witness ==
  /\ jobCall.op = "create_batch_job"
  /\ jobCall.arg.isNone
  /\ jobCall.ok
  /\ uploadCall.existed
  /\ uploadCall.up = "vendor_fail"
  /\ jobHandle.isNone
====
